---------------------------- MODULE Spec2Model ----------------------------
(***************************************************************************)
(* Model of src/dv_router.py: the distance-vector router DVRouter.         *)
(*                                                                         *)
(* The router is a single object whose handlers run to completion one at   *)
(* a time.  Each handler is one action.  Python dictionaries are modelled  *)
(* as functions whose domain is the set of keys; the source is Python 2    *)
(* code (it deletes from dictionaries while looping over .keys() and       *)
(* .items(), which are list snapshots there), and a dictionary is iterated *)
(* in ascending key order (ports and hosts are small integers here).       *)
(* Python lists are sequences.                                             *)
(***************************************************************************)
EXTENDS Integers, Sequences, FiniteSets, TLC

\* ------------------------------------------------------------------ bounds
NumPorts == 2
NumHosts == 2
MaxEvents == 4
MaxTime == 32
\* routers of the network in which convergence is examined
NumRouters == 3

\* --------------------------------------------------------------- constants
INFINITY == 16
ROUTE_TTL == 15
\* PeerTableEntry.FOREVER (a time no clock value reaches)
FOREVER == 1000000

Ports == 1..NumPorts
Hosts == 1..NumHosts
\* latencies the framework gives to a link
LinkLatencies == {1, 3}
\* latencies a neighbour may put in a route advertisement
RouteLatencies == {-2, 1, 16}
\* amounts by which the simulation clock advances between events
TimeSteps == {15, 16}

VARIABLES
    POISON_MODE,              \* class attribute, fixed for a run
    link_latency,             \* port -> latency
    peer_tables,              \* port -> (host -> PeerTableEntry)
    forwarding_table,         \* host -> ForwardingTableEntry
    history,                  \* <<port, host>> -> ForwardingTableEntry last sent
    removedHosts,             \* list of <<host, port>>
    emptyFwdTableList,        \* list of <<port, host>>
    poisonedHosts,            \* list of <<host, port>>
    removedFromPoisonedHosts, \* list of <<host, port>>
    now,                      \* api.current_time()
    sent,                     \* route advertisements sent by the last handler
    dataSent,                 \* data packets sent by the last handler
    last,                     \* the last event handled, with its arguments
    owed,                     \* <<port, host>>: withdrawal of host not yet sent on port
    heard,                    \* <<port, host>> -> cost last sent on port since its link came up
    nevents,                  \* number of events handled so far
    routers,                  \* network: router id -> DVRouter object
    wires,                    \* network: <<from, to>> -> advertisements in flight, in order
    ticked,                   \* network: routers whose timer fired in this period
    delivered                 \* network: parity of the number of advertisements delivered

vars == <<POISON_MODE, link_latency, peer_tables, forwarding_table, history,
          removedHosts, emptyFwdTableList, poisonedHosts,
          removedFromPoisonedHosts, now, sent, dataSent, last, owed, heard,
          nevents, routers, wires, ticked, delivered>>

\* ----------------------------------------------------- dictionaries, lists
EmptyDict == [x \in {} |-> 0]

Put(d, k, v) == [x \in (DOMAIN d) \cup {k} |-> IF x = k THEN v ELSE d[x]]

Del(d, k) == [x \in (DOMAIN d) \ {k} |-> d[x]]

RECURSIVE SortedSeq(_)
SortedSeq(S) ==
    IF S = {} THEN <<>>
    ELSE LET m == CHOOSE x \in S : \A y \in S : x <= y
         IN  <<m>> \o SortedSeq(S \ {m})

\* the order in which a loop over dictionary d visits its keys
keys(d) == SortedSeq(DOMAIN d)

InList(x, s) == \E i \in 1..Len(s) : s[i] = x

\* list.remove(x): drops the first element equal to x
RemoveFirst(s, x) ==
    LET i == CHOOSE j \in 1..Len(s) : s[j] = x /\ \A k \in 1..(j-1) : s[k] # x
    IN  SubSeq(s, 1, i-1) \o SubSeq(s, i+1, Len(s))

PeerTableEntry(dst, latency, expire_time) ==
    [dst |-> dst, latency |-> latency, expire_time |-> expire_time]

ForwardingTableEntry(dst, port, latency) ==
    [dst |-> dst, port |-> port, latency |-> latency]

RoutePacket(port, dst, cost) == [port |-> port, dst |-> dst, cost |-> cost]

\* never modified after __init__
trickledHosts == <<>>

\* ------------------------------------------------- update_forwarding_table
\* no cap: a cost above INFINITY is stored as it is
CapMutantNone(c) == c

Cap(c) == IF c > INFINITY THEN INFINITY ELSE c

\* the comparison turned round: a dearer offer replaces a cheaper one
BetterMutantGreater(currCost, prevCost) == currCost > prevCost

\* a tie replaces the current choice: the last port offering the minimum wins
BetterMutantOrEqual(currCost, prevCost) == currCost <= prevCost

Better(currCost, prevCost) == currCost < prevCost

MergeEntry(ll, pts, ft, port, host) ==
    LET value == pts[port][host]
        currCost == Cap(ll[port] + value.latency)
    IN  IF host \in DOMAIN ft
        THEN IF Better(currCost, ft[host].latency)
             THEN Put(ft, host, ForwardingTableEntry(host, port, currCost))
             ELSE ft
        ELSE Put(ft, host, ForwardingTableEntry(host, port, currCost))

RECURSIVE MergeHosts(_, _, _, _, _, _)
MergeHosts(ll, pts, ft, port, hs, j) ==
    IF j > Len(hs) THEN ft
    ELSE MergeHosts(ll, pts, MergeEntry(ll, pts, ft, port, hs[j]), port, hs, j + 1)

RECURSIVE MergePorts(_, _, _, _, _)
MergePorts(ll, pts, ft, ps, i) ==
    IF i > Len(ps) THEN ft
    ELSE MergePorts(ll, pts,
                    MergeHosts(ll, pts, ft, ps[i], keys(pts[ps[i]]), 1),
                    ps, i + 1)

update_forwarding_table(r) ==
    [r EXCEPT !.forwarding_table =
        MergePorts(r.link_latency, r.peer_tables, EmptyDict, keys(r.peer_tables), 1)]

\* -------------------------------------------------------------- send_routes
\* self.send(RoutePacket(dst, cost), port) followed by history[(port, dst)] = fte
Advertise(r, port, dst, cost) ==
    [r EXCEPT !.out = Append(@, RoutePacket(port, dst, cost)),
              !.history = Put(@, <<port, dst>>, ForwardingTableEntry(dst, port, cost))]

\* the test made when force is False: send unless history records this cost
Changed(r, port, key, cost) ==
    \/ <<port, key>> \notin DOMAIN r.history
    \/ r.history[<<port, key>>].dst # key
    \/ r.history[<<port, key>>].latency # cost

\* no poisoning: the real cost goes to the next hop as well
PoisonCostMutantReal(item) == item.latency

\* the cost sent to the route's own next hop in poison mode
PoisonCost(item) == INFINITY

\* body of the loop over (port, forwarding-table entry)
AdvertiseRoute(r, force, port, key) ==
    LET item == r.forwarding_table[key]
        fwdPorts == item.port
    IN  IF r.POISON_MODE
        THEN LET cost == IF port = fwdPorts THEN PoisonCost(item) ELSE item.latency
             IN  IF force = FALSE
                 THEN IF Changed(r, port, key, cost)
                      THEN Advertise(r, port, key, cost)
                      ELSE r
                 ELSE Advertise(r, port, key, cost)
        ELSE IF port # fwdPorts
             THEN IF force = FALSE
                  THEN IF Changed(r, port, key, item.latency)
                       THEN Advertise(r, port, key, item.latency)
                       ELSE r
                  ELSE Advertise(r, port, key, item.latency)
             ELSE r

RECURSIVE AdvertiseKeys(_, _, _, _, _)
AdvertiseKeys(r, force, port, ks, j) ==
    IF j > Len(ks) THEN r
    ELSE AdvertiseKeys(AdvertiseRoute(r, force, port, ks[j]), force, port, ks, j + 1)

RECURSIVE AdvertisePorts(_, _, _, _)
AdvertisePorts(r, force, ps, i) ==
    IF i > Len(ps) THEN r
    ELSE AdvertisePorts(AdvertiseKeys(r, force, ps[i], keys(r.forwarding_table), 1),
                        force, ps, i + 1)

\* the test made when the forwarding table is empty; brk: the port loop is left
EmptyFwdCheck(r, port, host) ==
    IF Cardinality(DOMAIN r.forwarding_table) = 0
    THEN IF <<port, host>> \in DOMAIN r.history /\ ~InList(<<port, host>>, r.emptyFwdTableList)
         THEN [r |-> [r EXCEPT !.emptyFwdTableList = Append(@, <<port, host>>)], brk |-> FALSE]
         ELSE IF InList(<<port, host>>, r.emptyFwdTableList)
              THEN [r |-> r, brk |-> TRUE]
              ELSE [r |-> r, brk |-> FALSE]
    ELSE [r |-> r, brk |-> FALSE]

\* loop over the forwarding table when the recorded cost is not INFINITY
ScanFinite(r, port, host, key) ==
    IF host # key /\ <<port, host>> \in DOMAIN r.history
    THEN [r EXCEPT !.history = Del(@, <<port, host>>)]
    ELSE IF host = key
         THEN [r EXCEPT !.tempList = Append(@, <<port, key>>)]
         ELSE r

\* loop over the forwarding table when the recorded cost is INFINITY
ScanPoisoned(r, port, host, key) ==
    LET value == r.forwarding_table[key]
    IN  IF key = host /\ value.port = port
        THEN [r EXCEPT !.tempList = Append(@, <<port, key>>)]
        ELSE IF <<port, host>> \in DOMAIN r.history
             THEN IF InList(<<host, port>>, r.removedFromPoisonedHosts)
                  THEN r
                  ELSE [r EXCEPT !.history = Del(@, <<port, host>>)]
             ELSE r

RECURSIVE ScanTable(_, _, _, _, _, _)
ScanTable(r, port, host, finite, ks, j) ==
    IF j > Len(ks) THEN r
    ELSE ScanTable(IF finite THEN ScanFinite(r, port, host, ks[j])
                             ELSE ScanPoisoned(r, port, host, ks[j]),
                   port, host, finite, ks, j + 1)

\* the block run under force for a pair found in history
ForceBlock(r, port, host) ==
    LET val == r.history[<<port, host>>]
        e == EmptyFwdCheck(r, port, host)
    IN  IF e.brk THEN e
        ELSE [r |-> ScanTable(e.r, port, host, val.latency # INFINITY,
                              keys(e.r.forwarding_table), 1),
              brk |-> FALSE]

\* the withdrawal advertisement and its guards
WithdrawSend(r, port, host) ==
    IF <<port, host>> \notin DOMAIN r.history \/ Len(r.emptyFwdTableList) > 0
    THEN IF InList(<<port, host>>, r.tempList) THEN r
         ELSE IF InList(<<host, port>>, r.removedFromPoisonedHosts) THEN r
         ELSE IF InList(<<host, port>>, trickledHosts) THEN r
         ELSE Advertise(r, port, host, INFINITY)
    ELSE r

\* body of the loop over (removed host, port)
WithdrawBody(r, force, rem, port) ==
    LET host == rem[1]
    IN  IF force = FALSE /\ ~InList(rem, r.poisonedHosts)
        THEN [r |-> r, brk |-> TRUE]
        ELSE LET a == IF force = TRUE /\ <<port, host>> \in DOMAIN r.history
                      THEN ForceBlock(r, port, host)
                      ELSE [r |-> r, brk |-> FALSE]
             IN  IF a.brk THEN a
                 ELSE [r |-> WithdrawSend(a.r, port, host), brk |-> FALSE]

RECURSIVE WithdrawPorts(_, _, _, _, _)
WithdrawPorts(r, force, rem, ps, i) ==
    IF i > Len(ps) THEN r
    ELSE LET b == WithdrawBody(r, force, rem, ps[i])
         IN  IF b.brk THEN b.r
             ELSE WithdrawPorts(b.r, force, rem, ps, i + 1)

RECURSIVE WithdrawRemoved(_, _, _)
WithdrawRemoved(r, force, k) ==
    IF k > Len(r.removedHosts) THEN r
    ELSE WithdrawRemoved(WithdrawPorts(r, force, r.removedHosts[k], keys(r.peer_tables), 1),
                         force, k + 1)

\* for elem in poisonedHosts: remove(elem) while the list is being iterated
RECURSIVE CleanPoisoned(_, _)
CleanPoisoned(r, i) ==
    IF i > Len(r.poisonedHosts) THEN r
    ELSE LET elem == r.poisonedHosts[i]
         IN  IF InList(elem, r.removedHosts)
             THEN CleanPoisoned(
                    [r EXCEPT !.poisonedHosts = RemoveFirst(@, elem),
                              !.removedFromPoisonedHosts = Append(@, elem)],
                    i + 1)
             ELSE CleanPoisoned(r, i + 1)

send_routes(r, force) ==
    LET r1 == AdvertisePorts(r, force, keys(r.peer_tables), 1)
        r2 == IF r1.POISON_MODE
              THEN WithdrawRemoved([r1 EXCEPT !.tempList = <<>>], force, 1)
              ELSE r1
    IN  IF r2.POISON_MODE /\ force = FALSE
        THEN CleanPoisoned(r2, 1)
        ELSE r2

\* ------------------------------------------------------------ expire_routes
\* a (host, port) pair is recorded once in removedHosts and poisonedHosts
MarkRemoved(r, host, port) ==
    IF ~InList(<<host, port>>, r.removedHosts)
    THEN [r EXCEPT !.removedHosts = Append(@, <<host, port>>),
                   !.poisonedHosts = Append(@, <<host, port>>)]
    ELSE r

\* an entry is dropped at its expiry time already
ExpiredMutantAtExpiry(t, expire_time) == t >= expire_time

Expired(t, expire_time) == t > expire_time

\* the loop over the forwarding table made for an expired entry: the entry
\* is deleted from the peer table when its host is a forwarding-table key
ExpireEntry(r, port, host) ==
    IF host \in DOMAIN r.forwarding_table
    THEN LET m == MarkRemoved(r, host, port)
         IN  [m EXCEPT !.peer_tables[port] = Del(@, host)]
    ELSE r

\* ret: the function has returned (a FOREVER entry was met)
RECURSIVE ExpireHosts(_, _, _, _, _, _)
ExpireHosts(r, t, port, pt, hs, j) ==
    IF j > Len(hs) THEN [r |-> r, ret |-> FALSE]
    ELSE LET value == pt[hs[j]]
         IN  IF value.expire_time = FOREVER
             THEN [r |-> r, ret |-> TRUE]
             ELSE IF Expired(t, value.expire_time)
                  THEN ExpireHosts(update_forwarding_table(ExpireEntry(r, port, hs[j])),
                                   t, port, pt, hs, j + 1)
                  ELSE ExpireHosts(r, t, port, pt, hs, j + 1)

RECURSIVE ExpirePorts(_, _, _, _)
ExpirePorts(r, t, ps, i) ==
    IF i > Len(ps) THEN r
    ELSE LET pt == r.peer_tables[ps[i]]
             e == ExpireHosts(r, t, ps[i], pt, keys(pt), 1)
         IN  IF e.ret THEN e.r
             ELSE ExpirePorts(e.r, t, ps, i + 1)

expire_routes(r, t) == ExpirePorts(r, t, keys(r.peer_tables), 1)

\* ------------------------------------------------------------------ handlers
add_static_route(r, host, port) ==
    LET pte == PeerTableEntry(host, 0, FOREVER)
        r1 == [r EXCEPT !.peer_tables[port] = Put(@, host, pte)]
    IN  send_routes(update_forwarding_table(r1), FALSE)

\* no dump: the new neighbour is sent nothing
DumpKeysMutantNone(r, port, ks, j) == r

RECURSIVE DumpKeys(_, _, _, _)
DumpKeys(r, port, ks, j) ==
    IF j > Len(ks) THEN r
    ELSE DumpKeys(Advertise(r, port, ks[j], r.forwarding_table[ks[j]].latency),
                  port, ks, j + 1)

handle_link_up(r, port, latency) ==
    LET r1 == [r EXCEPT !.link_latency = Put(@, port, latency),
                        !.peer_tables = Put(@, port, EmptyDict)]
    IN  DumpKeys(r1, port, keys(r1.forwarding_table), 1)

\* the loop over forwarding_table.keys() in handle_link_down
RECURSIVE DownKeys(_, _, _, _)
DownKeys(r, port, ks, j) ==
    IF j > Len(ks) THEN r
    ELSE LET x == ks[j]
             e == r.forwarding_table[x]
         IN  IF e.port = port /\ ~InList(<<e.dst, port>>, r.removedHosts)
             THEN DownKeys([MarkRemoved(r, e.dst, port)
                               EXCEPT !.forwarding_table = Del(@, x)],
                           port, ks, j + 1)
             ELSE DownKeys(r, port, ks, j + 1)

\* the nested loop over removedHosts and history.keys() in handle_link_down
ForgetHistory(r) ==
    LET gone == {item \in DOMAIN r.history :
                    \E k \in 1..Len(r.removedHosts) :
                        /\ r.removedHosts[k][2] # item[1]
                        /\ r.removedHosts[k][1] = item[2]}
    IN  [r EXCEPT !.history = [item \in (DOMAIN @) \ gone |-> @[item]]]

\* the port's peer table is kept when its link goes down
handle_link_down_KeepTable(r, port) ==
    LET r1 == DownKeys(r, port, keys(r.forwarding_table), 1)
    IN  send_routes(update_forwarding_table(ForgetHistory(r1)), FALSE)

handle_link_down(r, port) ==
    LET r1 == DownKeys(r, port, keys(r.forwarding_table), 1)
        r2 == IF port \in DOMAIN r1.peer_tables
              THEN [r1 EXCEPT !.peer_tables = Del(@, port)]
              ELSE r1
        r3 == ForgetHistory(r2)
    IN  send_routes(update_forwarding_table(r3), FALSE)

handle_route_advertisement(r, dst, port, route_latency, t) ==
    LET currentPTE == PeerTableEntry(dst, route_latency, t + ROUTE_TTL)
        r1 == [r EXCEPT !.peer_tables[port] = Put(@, dst, currentPTE)]
    IN  send_routes(update_forwarding_table(r1), FALSE)

handle_timer(r, t) == send_routes(expire_routes(r, t), TRUE)

\* handle_data_packet without its test of the arrival port
handle_data_packet_Bounce(r, packet, in_port) ==
    LET destination == packet.dst
    IN  IF destination \notin DOMAIN r.forwarding_table THEN <<>>
        ELSE IF r.forwarding_table[destination].latency >= INFINITY THEN <<>>
        ELSE << <<packet, r.forwarding_table[destination].port>> >>

\* a packet for an unknown destination is sent back where it came from
handle_data_packet_Return(r, packet, in_port) ==
    IF packet.dst \notin DOMAIN r.forwarding_table THEN << <<packet, in_port>> >>
    ELSE IF r.forwarding_table[packet.dst].latency >= INFINITY THEN <<>>
    ELSE IF r.forwarding_table[packet.dst].port = in_port THEN <<>>
    ELSE << <<packet, r.forwarding_table[packet.dst].port>> >>

\* the packets handle_data_packet sends: <<packet, out_port>>
handle_data_packet(r, packet, in_port) ==
    LET destination == packet.dst
    IN  IF destination \notin DOMAIN r.forwarding_table THEN <<>>
        ELSE LET dist == r.forwarding_table[destination].latency
                 out_port == r.forwarding_table[destination].port
             IN  IF dist >= INFINITY THEN <<>>
                 ELSE IF out_port = in_port THEN <<>>
                 ELSE << <<packet, out_port>> >>

\* ------------------------------------------------------------ state machine
\* the router object as the handlers see it; out and tempList start empty
Router ==
    [POISON_MODE |-> POISON_MODE,
     link_latency |-> link_latency,
     peer_tables |-> peer_tables,
     forwarding_table |-> forwarding_table,
     history |-> history,
     removedHosts |-> removedHosts,
     emptyFwdTableList |-> emptyFwdTableList,
     poisonedHosts |-> poisonedHosts,
     removedFromPoisonedHosts |-> removedFromPoisonedHosts,
     out |-> <<>>,
     tempList |-> <<>>]

\* the router as the next call finds it after a call that left it as r
After(r) == [r EXCEPT !.out = <<>>, !.tempList = <<>>]

Event(ev, port, dst, latency, sole) ==
    [ev |-> ev, port |-> port, dst |-> dst, latency |-> latency, sole |-> sole]

Withdrawal(port, host) == RoutePacket(port, host, INFINITY)

\* withdrawals still to be announced once handler result r is in place:
\* hosts that just left the forwarding table join, for every port that is up;
\* a pair leaves when the withdrawal is sent, the port goes down or the host
\* is reachable again
Owed(r) ==
    LET left == (DOMAIN forwarding_table) \ (DOMAIN r.forwarding_table)
        cand == owed \cup ((DOMAIN r.peer_tables) \X left)
    IN  {pd \in cand :
            /\ pd[1] \in DOMAIN r.peer_tables
            /\ pd[2] \notin DOMAIN r.forwarding_table
            /\ ~InList(Withdrawal(pd[1], pd[2]), r.out)}

\* what each neighbour has last been told: the advertisements in out are
\* applied in order to h
RECURSIVE Hear(_, _, _)
Hear(h, out, i) ==
    IF i > Len(out) THEN h
    ELSE Hear(Put(h, <<out[i].port, out[i].dst>>, out[i].cost), out, i + 1)

\* a neighbour's knowledge ends with its link: only the ports that are up
\* once the handler has returned are kept
Heard(r) ==
    LET kept == {pd \in DOMAIN heard : pd[1] \in (DOMAIN peer_tables) \cap (DOMAIN r.peer_tables)}
    IN  Hear([pd \in kept |-> heard[pd]], r.out, 1)

\* the state after a handler that left the router as r
Commit(r, e) ==
    /\ link_latency' = r.link_latency
    /\ peer_tables' = r.peer_tables
    /\ forwarding_table' = r.forwarding_table
    /\ history' = r.history
    /\ removedHosts' = r.removedHosts
    /\ emptyFwdTableList' = r.emptyFwdTableList
    /\ poisonedHosts' = r.poisonedHosts
    /\ removedFromPoisonedHosts' = r.removedFromPoisonedHosts
    /\ sent' = r.out
    /\ dataSent' = <<>>
    /\ last' = e
    /\ owed' = Owed(r)
    /\ heard' = Heard(r)
    /\ nevents' = nevents + 1
    /\ UNCHANGED <<POISON_MODE, now, routers, wires, ticked, delivered>>

Init ==
    /\ POISON_MODE \in BOOLEAN
    /\ link_latency = EmptyDict
    /\ peer_tables = EmptyDict
    /\ forwarding_table = EmptyDict
    /\ history = EmptyDict
    /\ removedHosts = <<>>
    /\ emptyFwdTableList = <<>>
    /\ poisonedHosts = <<>>
    /\ removedFromPoisonedHosts = <<>>
    /\ now = 0
    /\ sent = <<>>
    /\ dataSent = <<>>
    /\ last = Event("init", 0, 0, 0, {})
    /\ owed = {}
    /\ heard = EmptyDict
    /\ nevents = 0
    /\ routers = <<>>
    /\ wires = EmptyDict
    /\ ticked = {}
    /\ delivered = FALSE

\* the framework brings up a link only on a port whose link is down
LinkUp(port, latency) ==
    /\ port \notin DOMAIN peer_tables
    /\ Commit(handle_link_up(Router, port, latency), Event("link_up", port, 0, latency, {}))

\* hosts whose only route is through port
SoleRoutes(port) ==
    {h \in DOMAIN forwarding_table :
        /\ forwarding_table[h].port = port
        /\ \A q \in (DOMAIN peer_tables) \ {port} : h \notin DOMAIN peer_tables[q]}

LinkDown(port) ==
    /\ port \in DOMAIN peer_tables
    /\ Commit(handle_link_down(Router, port),
              Event("link_down", port, 0, 0, SoleRoutes(port)))

\* add_static_route asserts that the port's link is up
StaticRoute(host, port) ==
    /\ port \in DOMAIN peer_tables
    /\ Commit(add_static_route(Router, host, port), Event("static", port, host, 0, {}))

RouteAdvertisement(dst, port, route_latency) ==
    /\ port \in DOMAIN peer_tables
    /\ Commit(handle_route_advertisement(Router, dst, port, route_latency, now),
              Event("route", port, dst, route_latency, {}))

\* an advertisement arriving on a port that has no peer table: the lookup
\* self.peer_tables[port] raises KeyError before anything is changed
StaleRouteAdvertisement(dst, port) ==
    /\ port \notin DOMAIN peer_tables
    /\ sent' = <<>>
    /\ dataSent' = <<>>
    /\ last' = Event("KeyError", port, dst, 0, {})
    /\ nevents' = nevents + 1
    /\ UNCHANGED <<POISON_MODE, link_latency, peer_tables, forwarding_table,
                   history, removedHosts, emptyFwdTableList, poisonedHosts,
                   removedFromPoisonedHosts, now, owed, heard,
                   routers, wires, ticked, delivered>>

Timer ==
    /\ Commit(handle_timer(Router, now), Event("timer", 0, 0, 0, {}))

DataPacket(dst, in_port) ==
    /\ dataSent' = handle_data_packet(Router, [src |-> 0, dst |-> dst], in_port)
    /\ sent' = <<>>
    /\ last' = Event("data", in_port, dst, 0, {})
    /\ nevents' = nevents + 1
    /\ UNCHANGED <<POISON_MODE, link_latency, peer_tables, forwarding_table,
                   history, removedHosts, emptyFwdTableList, poisonedHosts,
                   removedFromPoisonedHosts, now, owed, heard,
                   routers, wires, ticked, delivered>>

\* the simulation clock moves between events
AdvanceTime(dt) ==
    /\ now + dt <= MaxTime
    /\ now' = now + dt
    /\ sent' = <<>>
    /\ dataSent' = <<>>
    /\ last' = Event("time", 0, 0, 0, {})
    /\ nevents' = nevents + 1
    /\ UNCHANGED <<POISON_MODE, link_latency, peer_tables, forwarding_table,
                   history, removedHosts, emptyFwdTableList, poisonedHosts,
                   removedFromPoisonedHosts, owed, heard,
                   routers, wires, ticked, delivered>>

\* the length of a run is bounded
More == nevents < MaxEvents

Next ==
    \/ More /\ \E port \in Ports, latency \in LinkLatencies : LinkUp(port, latency)
    \/ More /\ \E port \in Ports : LinkDown(port)
    \/ More /\ \E host \in Hosts, port \in Ports : StaticRoute(host, port)
    \/ More /\ \E dst \in Hosts, port \in Ports, l \in RouteLatencies :
                  RouteAdvertisement(dst, port, l)
    \/ More /\ \E dst \in Hosts, port \in Ports : StaleRouteAdvertisement(dst, port)
    \/ More /\ Timer
    \/ More /\ \E dst \in Hosts, in_port \in Ports : DataPacket(dst, in_port)
    \/ More /\ \E dt \in TimeSteps : AdvanceTime(dt)

Spec == Init /\ [][Next]_vars

\* Longer runs of the poison-mode router in a plain environment: every link
\* has latency 1, every neighbour advertises cost 1, and the clock moves in
\* steps that outlast ROUTE_TTL.
MaxEventsPoison == 9

InitPoison == Init /\ POISON_MODE = TRUE

MorePoison == nevents < MaxEventsPoison

NextPoison ==
    \/ MorePoison /\ \E port \in Ports : LinkUp(port, 1)
    \/ MorePoison /\ \E port \in Ports : LinkDown(port)
    \/ MorePoison /\ \E host \in Hosts, port \in Ports : StaticRoute(host, port)
    \/ MorePoison /\ \E dst \in Hosts, port \in Ports : RouteAdvertisement(dst, port, 1)
    \/ MorePoison /\ \E dst \in Hosts, port \in Ports : StaleRouteAdvertisement(dst, port)
    \/ MorePoison /\ Timer
    \/ MorePoison /\ AdvanceTime(16)

SpecPoison == InitPoison /\ [][NextPoison]_vars

\* The poison-mode router among neighbours that advertise destinations as
\* reachable (cost 1) or as withdrawn (cost INFINITY); links have latency 1.
MaxEventsWithdrawn == 7

MoreWithdrawn == nevents < MaxEventsWithdrawn

NextWithdrawn ==
    \/ MoreWithdrawn /\ \E port \in Ports : LinkUp(port, 1)
    \/ MoreWithdrawn /\ \E port \in Ports : LinkDown(port)
    \/ MoreWithdrawn /\ \E dst \in Hosts, port \in Ports, route_latency \in {1, INFINITY} :
                            RouteAdvertisement(dst, port, route_latency)
    \/ MoreWithdrawn /\ Timer

SpecWithdrawn == InitPoison /\ [][NextWithdrawn]_vars

\* ----------------------------------------------------------------- network
\* Several DVRouter objects in a line, router a between a - 1 and a + 1, each
\* with one host (host a at router a).  At every router port 1 leads to the
\* left neighbour, port 2 to the right neighbour and port 3 to the host.
\* The links never change; a wire delivers advertisements in the order in
\* which they were sent.  Every router's timer fires once in a period, in
\* any order; a period lasts ROUTE_TTL, the longest the routes outlive, and
\* does not end while advertisements are in flight.
Routers == 1..NumRouters

\* latencies of the links between routers; a host's link has latency 1
NetLatencies == {1, 15}

Wires == {e \in Routers \X Routers : e[2] = e[1] + 1 \/ e[1] = e[2] + 1}

\* the port of router a that leads to its neighbour b
PortTo(a, b) == IF b < a THEN 1 ELSE 2

\* DVRouter.__init__
NewRouter(pm) ==
    [POISON_MODE |-> pm,
     link_latency |-> EmptyDict,
     peer_tables |-> EmptyDict,
     forwarding_table |-> EmptyDict,
     history |-> EmptyDict,
     removedHosts |-> <<>>,
     emptyFwdTableList |-> <<>>,
     poisonedHosts |-> <<>>,
     removedFromPoisonedHosts |-> <<>>,
     out |-> <<>>,
     tempList |-> <<>>]

\* router a once its links are up and its host has been discovered;
\* lat[k] is the latency of the link between routers k and k + 1
Boot(a, pm, lat) ==
    LET r0 == NewRouter(pm)
        r1 == IF a > 1 THEN After(handle_link_up(r0, 1, lat[a - 1])) ELSE r0
        r2 == IF a < NumRouters THEN After(handle_link_up(r1, 2, lat[a])) ELSE r1
        r3 == After(handle_link_up(r2, 3, 1))
    IN  add_static_route(r3, a, 3)

\* the advertisements of out that were sent on port
AdsFor(out, port) == SelectSeq(out, LAMBDA m : m.port = port)

\* self.send: what router a sent joins the wires to its neighbours; what it
\* sent to its host leaves the network
Transmit(w, a, out) ==
    [e \in DOMAIN w |-> IF e[1] = a THEN w[e] \o AdsFor(out, PortTo(a, e[2])) ELSE w[e]]

InitNet ==
    /\ POISON_MODE \in BOOLEAN
    /\ link_latency = EmptyDict
    /\ peer_tables = EmptyDict
    /\ forwarding_table = EmptyDict
    /\ history = EmptyDict
    /\ removedHosts = <<>>
    /\ emptyFwdTableList = <<>>
    /\ poisonedHosts = <<>>
    /\ removedFromPoisonedHosts = <<>>
    /\ now = 0
    /\ sent = <<>>
    /\ dataSent = <<>>
    /\ last = Event("init", 0, 0, 0, {})
    /\ owed = {}
    /\ heard = EmptyDict
    /\ nevents = 0
    /\ \E lat \in [1..(NumRouters - 1) -> NetLatencies] :
          /\ routers = [a \in Routers |-> After(Boot(a, POISON_MODE, lat))]
          /\ wires = [e \in Wires |->
                         AdsFor(Boot(e[1], POISON_MODE, lat).out, PortTo(e[1], e[2]))]
    /\ ticked = {}
    /\ delivered = FALSE

\* variables of the single router, idle in the network
alone == <<link_latency, peer_tables, forwarding_table, history, removedHosts,
           emptyFwdTableList, poisonedHosts, removedFromPoisonedHosts, sent,
           dataSent, last, owed, heard, nevents>>

\* an advertisement is taken off a wire
Arrival ==
    /\ \E e \in Wires : wires[e] # <<>>
    /\ delivered' = ~delivered

\* the timer of router a starts its handler
Fire(a) ==
    /\ a \notin ticked
    /\ ticked' = ticked \cup {a}

\* the first advertisement on the wire from a to b reaches b
Deliver(a, b) ==
    /\ wires[<<a, b>>] # <<>>
    /\ delivered' = ~delivered
    /\ LET m == Head(wires[<<a, b>>])
           r == handle_route_advertisement(routers[b], m.dst, PortTo(b, a), m.cost, now)
       IN  /\ routers' = [routers EXCEPT ![b] = After(r)]
           /\ wires' = Transmit([wires EXCEPT ![<<a, b>>] = Tail(@)], b, r.out)
    /\ UNCHANGED <<POISON_MODE, now, ticked, alone>>

\* the timer of router a fires
Tick(a) ==
    /\ Fire(a)
    /\ LET r == handle_timer(routers[a], now)
       IN  /\ routers' = [routers EXCEPT ![a] = After(r)]
           /\ wires' = Transmit(wires, a, r.out)
    /\ UNCHANGED <<POISON_MODE, now, delivered, alone>>

\* the next period begins
Period ==
    /\ ticked = Routers
    /\ \A e \in Wires : wires[e] = <<>>
    /\ now + ROUTE_TTL <= MaxTime
    /\ now' = now + ROUTE_TTL
    /\ ticked' = {}
    /\ UNCHANGED <<POISON_MODE, routers, wires, delivered, alone>>

NextNet ==
    \/ \E e \in Wires : Deliver(e[1], e[2])
    \/ \E a \in Routers : Tick(a)
    \/ Period

\* Every advertisement in flight is delivered and every timer fires.  The
\* handlers always return, so a step of NextNet that changes delivered is a
\* Deliver step, enabled when Arrival is, and a step that adds a router to
\* ticked is a Tick step, enabled when Fire is.
SpecNet ==
    /\ InitNet
    /\ [][NextNet]_vars
    /\ WF_delivered(Arrival)
    /\ WF_ticked(\E a \in Routers : Fire(a))
    /\ WF_vars(Period)

\* ------------------------------------------------------------------ claims
Min2(a, b) == IF a < b THEN a ELSE b

SetMin(S) == CHOOSE x \in S : \A y \in S : x <= y

\* the active ports whose peer table contains D
Offering(D) == {p \in DOMAIN peer_tables : D \in DOMAIN peer_tables[p]}

OfferedCost(p, D) == Min2(link_latency[p] + peer_tables[p][D].latency, 16)

\* C1: after every handler, the forwarding table has an entry for D exactly
\* when some active port's peer table contains D, and the entry's latency is
\* the minimum over those ports of min(link latency + peer latency, 16).
C1_ForwardingTableIsMinimum ==
    \A D \in Hosts :
        /\ (D \in DOMAIN forwarding_table) <=> (Offering(D) # {})
        /\ D \in DOMAIN forwarding_table =>
              forwarding_table[D].latency =
                  SetMin({OfferedCost(p, D) : p \in Offering(D)})

\* two ports offer D at different costs, the later port being the cheaper
\* one, and another offer is capped at 16
C1_Witness ==
    \E D \in Hosts :
        /\ Offering(D) = {1, 2}
        /\ OfferedCost(2, D) < OfferedCost(1, D)
        /\ link_latency[1] + peer_tables[1][D].latency > 16
        /\ forwarding_table[D].port = 2
        /\ forwarding_table[D].latency = OfferedCost(2, D)

\* C2: no handler sends, on the port the forwarding table has chosen for D,
\* an advertisement for D with a cost below 16: in poison mode what is sent
\* there has cost 16, and without poison mode nothing is sent there.
C2_SplitHorizon ==
    \A i \in 1..Len(sent) :
        LET a == sent[i]
        IN  (a.dst \in DOMAIN forwarding_table /\ forwarding_table[a.dst].port = a.port)
               => (POISON_MODE /\ a.cost = 16)

\* a route of finite cost is poisoned towards its own next hop while its real
\* cost goes to the other port
C2_Witness ==
    \E i, j \in 1..Len(sent) :
        /\ sent[i].dst \in DOMAIN forwarding_table
        /\ forwarding_table[sent[i].dst].port = sent[i].port
        /\ forwarding_table[sent[i].dst].latency < 16
        /\ sent[i].cost = 16
        /\ sent[j].dst = sent[i].dst
        /\ sent[j].port # sent[i].port
        /\ sent[j].cost = forwarding_table[sent[i].dst].latency

\* positions in sent of the advertisements for dst D sent on port p
AdsOn(p, D) == {i \in 1..Len(sent) : sent[i].port = p /\ sent[i].dst = D}

\* C3: a withdrawal left unannounced on a port is announced there by the end
\* of the next periodic tick, while the port stays up and the host stays
\* unreachable: no pair owed before handle_timer is still owed after it.
C3_WithdrawalAnnounced ==
    [][last'.ev = "timer" => owed \cap owed' = {}]_vars

\* C4: in poison mode, when handle_link_down(P) returns, every destination
\* whose only route was through P is out of the forwarding table and every
\* other active port was sent exactly one advertisement for it, of cost 16.
C4_PromptPoison ==
    (POISON_MODE /\ last.ev = "link_down") =>
        \A B \in last.sole :
            /\ B \notin DOMAIN forwarding_table
            /\ \A q \in DOMAIN peer_tables :
                  /\ Cardinality(AdsOn(q, B)) = 1
                  /\ \A i \in AdsOn(q, B) : sent[i].cost = 16

\* the handlers that end with an advertisement pass
PassEvents == {"static", "route", "link_down", "timer"}

\* C5: in every advertisement pass, a destination the forwarding table
\* reaches at a finite cost c through port Q is advertised on every other
\* active port at cost c only, never as withdrawn.
C5_ReachabilityFirst ==
    last.ev \in PassEvents =>
        \A D \in DOMAIN forwarding_table :
            forwarding_table[D].latency < 16 =>
                \A P \in (DOMAIN peer_tables) \ {forwarding_table[D].port} :
                    \A i \in AdsOn(P, D) : sent[i].cost = forwarding_table[D].latency

\* C6: the second of two consecutive send_routes(force=False) calls sends
\* nothing.
C6_Suppression ==
    send_routes(After(send_routes(Router, FALSE)), FALSE).out = <<>>

Packets(out) == {out[i] : i \in 1..Len(out)}

\* C7: two consecutive send_routes(force=True) calls send the same set of
\* (port, destination, cost) advertisements.
C7_ForceIdempotent ==
    Packets(send_routes(After(send_routes(Router, TRUE)), TRUE).out)
        = Packets(send_routes(Router, TRUE).out)

ExpiredEntries ==
    {ph \in Ports \X Hosts :
        /\ ph[1] \in DOMAIN peer_tables
        /\ ph[2] \in DOMAIN peer_tables[ph[1]]
        /\ peer_tables[ph[1]][ph[2]].expire_time # FOREVER
        /\ now > peer_tables[ph[1]][ph[2]].expire_time}

\* C8: after the expiration pass of handle_timer no active port's peer table
\* holds an entry that can expire and whose expiry time has passed, and the
\* forwarding table holds no destination that only such entries support.
C8_NoStaleAfterTimer ==
    last.ev = "timer" =>
        /\ ExpiredEntries = {}
        /\ \A D \in DOMAIN forwarding_table :
              \E p \in Offering(D) : <<p, D>> \notin ExpiredEntries

\* C9: handle_data_packet sends nothing when the destination has no entry,
\* the entry's latency is at least 16 or its port is the arrival port;
\* otherwise it sends the packet, unchanged, once, on the entry's port.
C9_DataPacketDecision ==
    last.ev = "data" =>
        LET D == last.dst
            drop == \/ D \notin DOMAIN forwarding_table
                    \/ forwarding_table[D].latency >= 16
                    \/ forwarding_table[D].port = last.port
        IN  /\ sent = <<>>
            /\ IF drop THEN dataSent = <<>>
               ELSE dataSent = << <<[src |-> 0, dst |-> D], forwarding_table[D].port>> >>

\* a packet is forwarded, and not out of the port it came in on
C9_Witness ==
    /\ last.ev = "data"
    /\ Len(dataSent) = 1
    /\ dataSent[1][2] # last.port
    /\ dataSent[1][1].dst = last.dst

\* C10: every latency in the forwarding table and every cost in an
\* advertisement the router sends is in 0..16.
C10_CostRange ==
    /\ \A D \in DOMAIN forwarding_table : forwarding_table[D].latency \in 0..16
    /\ \A i \in 1..Len(sent) : sent[i].cost \in 0..16

\* C11: a route advertisement or a data packet arriving on a port that has
\* no peer table raises no error, changes nothing and causes no send.
C11_StaleEventsIgnored ==
    /\ last.ev # "KeyError"
    /\ (last.ev = "data" /\ last.port \notin DOMAIN peer_tables) =>
          (dataSent = <<>> /\ sent = <<>>)

\* C12: handle_link_up(port, latency) records the latency, gives the port an
\* empty peer table, leaves the forwarding table as it was, and sends on that
\* port, and on no other, one advertisement per destination of the
\* forwarding table, carrying its latency.
C12_LinkUpDump ==
    [][last'.ev = "link_up" =>
          LET p == last'.port
          IN  /\ link_latency'[p] = last'.latency
              /\ DOMAIN peer_tables'[p] = {}
              /\ forwarding_table' = forwarding_table
              /\ \A i \in 1..Len(sent') :
                    sent'[i].port = p /\ sent'[i].dst \in DOMAIN forwarding_table
              /\ \A D \in DOMAIN forwarding_table :
                    \E i \in 1..Len(sent') :
                        /\ sent'[i] = RoutePacket(p, D, forwarding_table[D].latency)
                        /\ \A j \in 1..Len(sent') : sent'[j].dst = D => j = i]_vars

\* a link came up while the forwarding table held a route, which was dumped
C12_Witness ==
    /\ last.ev = "link_up"
    /\ \E D \in DOMAIN forwarding_table :
          /\ forwarding_table[D].port # last.port
          /\ sent = <<RoutePacket(last.port, D, forwarding_table[D].latency)>>

\* C14: after every handler each forwarding-table entry's port has a peer
\* table; after handle_link_down(P) a destination that was routed through P
\* is absent when no other active port offers it, and otherwise routed
\* through another active port at the least remaining cost.
C14_ChosenPortActive ==
    [][/\ \A D \in DOMAIN forwarding_table' :
             forwarding_table'[D].port \in DOMAIN peer_tables'
       /\ last'.ev = "link_down" =>
             \A D \in DOMAIN forwarding_table :
                 forwarding_table[D].port = last'.port =>
                     IF Offering(D)' = {}
                     THEN D \notin DOMAIN forwarding_table'
                     ELSE /\ D \in DOMAIN forwarding_table'
                          /\ forwarding_table'[D].port # last'.port
                          /\ forwarding_table'[D].port \in DOMAIN peer_tables'
                          /\ forwarding_table'[D].latency =
                                SetMin({OfferedCost(p, D)' : p \in Offering(D)'})]_vars

\* a link went down, and a destination that was routed through it (it is in
\* removedHosts with that port) is now routed through another port, whose
\* neighbour is sent the poison
C14_Witness ==
    /\ last.ev = "link_down"
    /\ \E D \in DOMAIN forwarding_table :
          /\ InList(<<D, last.port>>, removedHosts)
          /\ forwarding_table[D].port # last.port
          /\ InList(RoutePacket(forwarding_table[D].port, D, INFINITY), sent)

\* C17: expire_routes removes no entry that never expires and no entry
\* whose expiry time has not passed; an advertisement received at time t
\* sets the entry's expiry to t + 15, and a static route is stored with
\* latency 0 and no expiry.
C17_UnexpiredSurvive ==
    [][/\ last'.ev = "timer" =>
             \A p \in DOMAIN peer_tables : \A h \in DOMAIN peer_tables[p] :
                 (peer_tables[p][h].expire_time = FOREVER \/ now <= peer_tables[p][h].expire_time)
                     => /\ p \in DOMAIN peer_tables'
                        /\ h \in DOMAIN peer_tables'[p]
                        /\ peer_tables'[p][h] = peer_tables[p][h]
       /\ last'.ev = "route" =>
             peer_tables'[last'.port][last'.dst].expire_time = now + 15
       /\ last'.ev = "static" =>
             peer_tables'[last'.port][last'.dst] =
                 [dst |-> last'.dst, latency |-> 0, expire_time |-> FOREVER]]_vars

\* the timer ran at the very expiry time of an entry, which is still there
C17_Witness ==
    /\ last.ev = "timer"
    /\ now > 0
    /\ \E p \in DOMAIN peer_tables : \E h \in DOMAIN peer_tables[p] :
          peer_tables[p][h].expire_time = now

\* C18: handle_data_packet changes none of link_latency, peer_tables,
\* forwarding_table, history and the withdrawal lists and sends no route
\* advertisement; for a destination without an entry it sends nothing.
C18_DataPacketFrame ==
    [][last'.ev = "data" =>
          /\ UNCHANGED <<link_latency, peer_tables, forwarding_table, history,
                         removedHosts, emptyFwdTableList, poisonedHosts,
                         removedFromPoisonedHosts>>
          /\ sent' = <<>>
          /\ last'.dst \notin DOMAIN forwarding_table => dataSent' = <<>>]_vars

\* a packet for a destination without an entry arrived while another
\* destination had one
C18_Witness ==
    /\ last.ev = "data"
    /\ last.dst \notin DOMAIN forwarding_table
    /\ DOMAIN forwarding_table # {}
    /\ dataSent = <<>>

\* C19: among the active ports that offer D at the least capped cost the
\* first in iteration order is chosen, and recomputing the forwarding table
\* from the same peer tables and link latencies gives the same table.
C19_TieBreak ==
    /\ \A D \in DOMAIN forwarding_table :
          forwarding_table[D].port =
              SetMin({p \in Offering(D) : OfferedCost(p, D) = forwarding_table[D].latency})
    /\ update_forwarding_table(Router).forwarding_table = forwarding_table

\* both ports offer D at the same cost and the first is chosen
C19_Witness ==
    \E D \in DOMAIN forwarding_table :
        /\ Offering(D) = {1, 2}
        /\ OfferedCost(1, D) = OfferedCost(2, D)
        /\ forwarding_table[D].port = 1

\* the cost of the last advertisement in out for dst D on port p
LastCost(out, p, D) ==
    LET I == {i \in 1..Len(out) : out[i].port = p /\ out[i].dst = D}
    IN  out[CHOOSE i \in I : \A j \in I : j <= i].cost

\* the pairs <<port, dst>> advertised in out
Advertised(out) == {<<out[i].port, out[i].dst>> : i \in 1..Len(out)}

\* C15: at the end of an advertisement pass the cached advertised state of
\* every pair (P, D) advertised in the pass is the cost last transmitted for
\* it; hence send_routes(force=False) called right after
\* send_routes(force=True) sends no advertisement for a destination that is
\* in the forwarding table.
C15_CacheMatchesSent ==
    LET r == send_routes(Router, TRUE)
    IN  /\ \A pd \in Advertised(r.out) :
              /\ pd \in DOMAIN r.history
              /\ r.history[pd].latency = LastCost(r.out, pd[1], pd[2])
        /\ \A pd \in Advertised(send_routes(After(r), FALSE).out) :
              pd[2] \notin DOMAIN forwarding_table

\* C16: handle_timer in poison mode expires routes first and then sends, on
\* every active port P and for every destination D of the forwarding table
\* as it is after expiration, exactly one advertisement: of cost 16 when P is
\* D's chosen port and of D's forwarding-table latency otherwise.
C16_TimerFullDump ==
    (POISON_MODE /\ last.ev = "timer") =>
        \A P \in DOMAIN peer_tables : \A D \in DOMAIN forwarding_table :
            /\ Cardinality(AdsOn(P, D)) = 1
            /\ \A i \in AdsOn(P, D) :
                  sent[i].cost = IF forwarding_table[D].port = P THEN INFINITY
                                 ELSE forwarding_table[D].latency

\* C20: in poison mode, when a handler that ends with an advertisement pass
\* returns, the last advertisement for D sent on P since P came up exists
\* and carries the cost the rule yields now, for every active port P and
\* every destination D of the forwarding table.
C20_NeighborsInSync ==
    (POISON_MODE /\ last.ev \in PassEvents) =>
        \A P \in DOMAIN peer_tables : \A D \in DOMAIN forwarding_table :
            /\ <<P, D>> \in DOMAIN heard
            /\ heard[<<P, D>>] = IF forwarding_table[D].port = P THEN INFINITY
                                 ELSE forwarding_table[D].latency

\* the sum of the link latencies from router a to host h along the line
RECURSIVE PathSum(_, _)
PathSum(a, h) ==
    IF a = h THEN routers[a].link_latency[3]
    ELSE IF a < h THEN routers[a].link_latency[2] + PathSum(a + 1, h)
    ELSE routers[a].link_latency[1] + PathSum(a - 1, h)

Converged ==
    \A a \in Routers : \A h \in Routers :
        /\ h \in DOMAIN routers[a].forwarding_table
        /\ routers[a].forwarding_table[h].latency = Min2(PathSum(a, h), INFINITY)

\* C13: in a network of several routers with attached hosts, a fixed
\* loop-free topology and reliable in-order delivery, after finitely many
\* ticks every router's forwarding-table latency to every host is the sum
\* of the link latencies on the path to it, capped at 16, and stays so.
C13_Convergence == <>[]Converged

\* the network has converged in a later period, all timers having fired;
\* a host two routers away is known at the capped cost and the host of a
\* neighbour at the sum of two link latencies
C13_Witness ==
    /\ Converged
    /\ now = ROUTE_TTL + ROUTE_TTL
    /\ ticked = Routers
    /\ PathSum(1, 3) > INFINITY
    /\ routers[1].forwarding_table[3] = ForwardingTableEntry(3, 2, INFINITY)
    /\ routers[1].forwarding_table[2] = ForwardingTableEntry(2, 2, 2)

=============================================================================
